---- MODULE Spec2Model ----
(***************************************************************************)
(* Model of ai-flash-cards: the review (staging) state of FlashCardApp,   *)
(* the browser-side storage layer (src/lib/storage.ts), the REST          *)
(* endpoints under src/pages/api and the Postgres schema with its         *)
(* row-level-security policies and foreign-key cascade.                    *)
(***************************************************************************)
EXTENDS Integers, Sequences, FiniteSets, TLC

(* ---------------------------------------------------------------------- *)
(* Bounds                                                                  *)
(* ---------------------------------------------------------------------- *)
MaxSessions == 2
MaxCards == 2
MaxBatch == 2
MaxAccepts == 2
MaxBatches == 2

(* ---------------------------------------------------------------------- *)
(* Value domains                                                           *)
(* ---------------------------------------------------------------------- *)
Users == {"A", "B"}
NoUser == "none"
NoId == 0
SessionIds == 1..MaxSessions
CardIds == 1..MaxCards

\* Texts are sequences of one-character strings so that trim() is computed.
TxtQ == <<"q">>
TxtA == <<"a">>
TxtR == <<"r">>
TxtE == <<"e">>
TxtB == <<"b">>
TxtBlank == <<" ">>
DefaultName == <<"s">>
OtherName == <<"t">>

VARIABLES
    sessions,       \* table public.sessions: set of rows
    flash_cards,    \* table public.flash_cards: set of rows
    nextSessionId,  \* next value of gen_random_uuid() for sessions
    nextCardId,     \* next value of gen_random_uuid() for flash_cards
    authUser,       \* user of the browser's supabaseClient (auth.getUser())
    pc,             \* position inside saveFlashCardsToSession
    commit,         \* locals of the running saveFlashCardsToSession
    generatedFlashCards, \* FlashCardApp state: the staged batch
    cardUi,         \* FlashCard component state, per position of the batch
    isLoading,      \* FlashCardApp state
    error,          \* FlashCardApp state
    isSessionModalOpen, \* FlashCardApp state
    modal,          \* SessionModal state: sessionName, isSaving, error
    cascaded,       \* history: ids of the flash_cards rows removed by the
                    \* cascade of a session delete
    acceptCount,    \* history: per position of the batch, how many times
                    \* handleAccept has replaced that candidate
    staged,         \* history: how many batches the page has staged
    gen,            \* POST /api/flashcards/generate: the request being served
    genPrev         \* history: the request served before this one

dbVars == <<sessions, flash_cards, nextSessionId, nextCardId>>
commitVars == <<pc, commit>>
uiVars == <<generatedFlashCards, cardUi, isLoading, error, isSessionModalOpen, modal>>
histVars == <<cascaded, acceptCount, staged>>
genVars == <<gen, genPrev>>
vars == <<dbVars, authUser, commitVars, uiVars, histVars, genVars>>

(* ---------------------------------------------------------------------- *)
(* Text helpers                                                            *)
(* ---------------------------------------------------------------------- *)
IsSpace(ch) == ch = " "

RECURSIVE TrimStart(_)
TrimStart(t) ==
    IF t = <<>> THEN <<>>
    ELSE IF IsSpace(Head(t)) THEN TrimStart(Tail(t)) ELSE t

RECURSIVE TrimEnd(_)
TrimEnd(t) ==
    IF t = <<>> THEN <<>>
    ELSE IF IsSpace(t[Len(t)]) THEN TrimEnd(SubSeq(t, 1, Len(t) - 1)) ELSE t

\* String.prototype.trim()
Trim(t) == TrimEnd(TrimStart(t))

\* JavaScript truthiness of a string: the empty string is falsy.
Truthy(t) == t # <<>>

(* ---------------------------------------------------------------------- *)
(* Database: row-level security and foreign key                            *)
(* ---------------------------------------------------------------------- *)
\* policies "users can ... own ...": to authenticated using (auth.uid() = user_id)
RlsOwn(uid, row) == uid # NoUser /\ row.user_id = uid

SessionRow(id) == CHOOSE s \in sessions : s.id = id
SessionExists(id) == \E s \in sessions : s.id = id
CardRow(id) == CHOOSE c \in flash_cards : c.id = id
CardExists(id) == \E c \in flash_cards : c.id = id

\* rows of sessions a query run as uid can see
VisibleSessions(uid) == {s \in sessions : RlsOwn(uid, s)}
\* rows of flash_cards a query run as uid can see
VisibleCards(uid) == {c \in flash_cards : RlsOwn(uid, c)}

\* flash_cards.session_id references sessions(id): checked without RLS
FkOk(sid) == sid = NoId \/ SessionExists(sid)

\* delete from sessions where id = ... : the rows removed from flash_cards
\* by "on delete cascade" (the cascade is not subject to RLS)
CascadeCards(deletedIds) == {c \in flash_cards : c.session_id \in deletedIds}

(* ---------------------------------------------------------------------- *)
(* Responses                                                               *)
(* ---------------------------------------------------------------------- *)
\* What an operation hands back to its caller.  owners: the user_id of every
\* row contained in the response; ids: the ids of the rows in the response.
\* An endpoint that writes is given twice: the response it computes from the
\* tables (name ending in _resp) and the action that runs it; a read is the
\* response alone.
Resp(op, caller, status, code, owners, ids) ==
    [op |-> op, caller |-> caller, status |-> status, code |-> code,
     message |-> "", owners |-> owners, ids |-> ids]

\* JSON body {error: {message, code}} with an HTTP status
ApiError(op, caller, status, code, message) ==
    [Resp(op, caller, status, code, {}, {}) EXCEPT !.message = message]

AuthRequired(op, caller) ==
    ApiError(op, caller, 401, "AUTH_REQUIRED", "Authentication required")

OwnersOf(rows) == {r.user_id : r \in rows}
IdsOf(rows) == {r.id : r \in rows}

(* ---------------------------------------------------------------------- *)
(* Identity of the browser client (src/lib/auth.ts)                        *)
(* ---------------------------------------------------------------------- *)
login(u) ==
    /\ authUser # u
    /\ authUser' = u
    /\ UNCHANGED <<genVars, dbVars, commitVars, uiVars, histVars>>

logout ==
    /\ authUser # NoUser
    /\ authUser' = NoUser
    /\ UNCHANGED <<genVars, dbVars, commitVars, uiVars, histVars>>

(* ---------------------------------------------------------------------- *)
(* src/lib/storage.ts: FlashCard CRUD                                      *)
(* ---------------------------------------------------------------------- *)
getCurrentUserId == authUser

NewCard(id, uid, sid, front, back) ==
    [id |-> id, user_id |-> uid, session_id |-> sid, front |-> front, back |-> back]

\* if (!userId) throw ...; if (error) throw ...
saveFlashCard_throws(sessionId) ==
    getCurrentUserId = NoUser \/ ~FkOk(sessionId) \/ nextCardId > MaxCards

\* throws when nobody is logged in or the insert fails; inserts otherwise
saveFlashCard(front, back, sessionId) ==
    LET userId == getCurrentUserId IN
    /\ IF ~saveFlashCard_throws(sessionId)
       THEN /\ flash_cards' = flash_cards \cup
                   {NewCard(nextCardId, userId, sessionId, front, back)}
            /\ nextCardId' = nextCardId + 1
       ELSE UNCHANGED <<flash_cards, nextCardId>>
    /\ UNCHANGED <<genVars, sessions, nextSessionId, authUser, commitVars, uiVars, histVars>>

getFlashCards ==
    LET userId == getCurrentUserId
        rows == IF userId = NoUser THEN {}
                ELSE {c \in VisibleCards(authUser) : c.user_id = userId}
    IN Resp("getFlashCards", authUser, 0, "ok", OwnersOf(rows), IdsOf(rows))

deleteFlashCard(id) ==
    /\ flash_cards' = flash_cards \ {c \in VisibleCards(authUser) : c.id = id}
    /\ UNCHANGED <<genVars, sessions, nextSessionId, nextCardId, authUser, commitVars, uiVars, histVars>>

\* updates: which of front / back / sessionId are defined, and their values
ApplyUpdate(c, u) ==
    [c EXCEPT !.front = IF u.hasFront THEN u.front ELSE @,
              !.back = IF u.hasBack THEN u.back ELSE @,
              !.session_id = IF u.hasSession THEN u.sessionId ELSE @]

updateFlashCard(id, u) ==
    LET hit == {c \in VisibleCards(authUser) : c.id = id}
        fkFails == \E c \in hit : ~FkOk(ApplyUpdate(c, u).session_id)
    IN /\ flash_cards' = IF fkFails THEN flash_cards
                         ELSE (flash_cards \ hit) \cup {ApplyUpdate(c, u) : c \in hit}
       /\ UNCHANGED <<genVars, sessions, nextSessionId, nextCardId, authUser, commitVars, uiVars, histVars>>

(* ---------------------------------------------------------------------- *)
(* src/lib/storage.ts: Session CRUD                                        *)
(* ---------------------------------------------------------------------- *)
NewSession(id, uid, name) == [id |-> id, user_id |-> uid, name |-> name]

\* if (!userId) throw ...; if (error) throw ...
createSession_throws == getCurrentUserId = NoUser \/ nextSessionId > MaxSessions

\* createSession without the test of the user id
createSession_NoAuthCheck(name) ==
    /\ IF nextSessionId <= MaxSessions
       THEN /\ sessions' = sessions \cup
                   {NewSession(nextSessionId, getCurrentUserId, name)}
            /\ nextSessionId' = nextSessionId + 1
       ELSE UNCHANGED <<sessions, nextSessionId>>
    /\ UNCHANGED <<genVars, flash_cards, nextCardId, authUser, commitVars, uiVars, histVars>>

createSession(name) ==
    LET userId == getCurrentUserId IN
    /\ IF ~createSession_throws
       THEN /\ sessions' = sessions \cup {NewSession(nextSessionId, userId, name)}
            /\ nextSessionId' = nextSessionId + 1
       ELSE UNCHANGED <<sessions, nextSessionId>>
    /\ UNCHANGED <<genVars, flash_cards, nextCardId, authUser, commitVars, uiVars, histVars>>

getSessions ==
    LET userId == getCurrentUserId
        rows == IF userId = NoUser THEN {}
                ELSE {s \in VisibleSessions(authUser) : s.user_id = userId}
    IN Resp("getSessions", authUser, 0, "ok", OwnersOf(rows), IdsOf(rows))

getSessionWithFlashCards(sessionId) ==
    LET userId == getCurrentUserId
        srows == {s \in VisibleSessions(authUser) : s.id = sessionId /\ s.user_id = userId}
        crows == {c \in VisibleCards(authUser) :
                     c.session_id = sessionId /\ c.user_id = userId}
    IN IF userId = NoUser \/ srows = {}
       THEN Resp("getSessionWithFlashCards", authUser, 0, "null", {}, {})
       ELSE Resp("getSessionWithFlashCards", authUser, 0, "ok",
                 OwnersOf(srows) \cup OwnersOf(crows), IdsOf(crows))

renameSession(id, newName) ==
    LET hit == {s \in VisibleSessions(authUser) : s.id = id} IN
    /\ sessions' = (sessions \ hit) \cup {[s EXCEPT !.name = newName] : s \in hit}
    /\ UNCHANGED <<genVars, flash_cards, nextSessionId, nextCardId, authUser, commitVars, uiVars, histVars>>

\* the delete without "on delete cascade" on flash_cards.session_id
DbDeleteSession_NoCascade(uid, id) ==
    /\ sessions' = sessions \ {s \in VisibleSessions(uid) : s.id = id}
    /\ UNCHANGED <<flash_cards, cascaded>>

\* delete from sessions where id = ... as uid; flash_cards follow by cascade
DbDeleteSession(uid, id) ==
    LET hit == {s \in VisibleSessions(uid) : s.id = id} IN
    /\ sessions' = sessions \ hit
    /\ flash_cards' = flash_cards \ CascadeCards(IdsOf(hit))
    /\ cascaded' = cascaded \cup IdsOf(CascadeCards(IdsOf(hit)))

deleteSession(id) ==
    /\ DbDeleteSession(authUser, id)
    /\ UNCHANGED <<genVars, nextSessionId, nextCardId, authUser, commitVars, uiVars, acceptCount, staged>>

(* ---------------------------------------------------------------------- *)
(* src/lib/storage.ts: saveFlashCardsToSession, one action per await       *)
(* ---------------------------------------------------------------------- *)
IdleCommit ==
    [cards |-> <<>>, name |-> <<>>, session |-> NoId, userId |-> NoUser,
     firstId |-> NoId, deleteAttempts |-> 0, deleteFailed |-> FALSE,
     result |-> "none", via |-> "none", batch |-> <<>>, accepts |-> <<>>]

\* entry: the arguments are bound, nothing has run yet
BeginCommit(flashCards, sessionName, via) ==
    /\ pc = "idle"
    /\ pc' = "createSession"
    /\ commit' = [IdleCommit EXCEPT !.cards = flashCards, !.name = sessionName,
                                    !.via = via, !.result = "pending"]

\* the commit ends by throwing
Throw == /\ pc' = "done"
         /\ commit' = [commit EXCEPT !.result = "error"]

\* const session = await createSession(sessionName)
SFS_createSession ==
    /\ pc = "createSession"
    /\ \E dbError \in BOOLEAN :
         IF getCurrentUserId = NoUser \/ dbError \/ nextSessionId > MaxSessions
         THEN /\ Throw
              /\ UNCHANGED dbVars
         ELSE /\ sessions' = sessions \cup
                     {NewSession(nextSessionId, getCurrentUserId, commit.name)}
              /\ nextSessionId' = nextSessionId + 1
              /\ commit' = [commit EXCEPT !.session = nextSessionId]
              /\ pc' = "getUser"
              /\ UNCHANGED <<flash_cards, nextCardId>>
    /\ UNCHANGED <<genVars, authUser, uiVars, histVars>>

\* const userId = await getCurrentUserId(); if (!userId) throw
SFS_getUser ==
    /\ pc = "getUser"
    /\ IF getCurrentUserId = NoUser
       THEN Throw
       ELSE /\ commit' = [commit EXCEPT !.userId = getCurrentUserId]
            /\ pc' = "insert"
    /\ UNCHANGED <<genVars, dbVars, authUser, uiVars, histVars>>

\* the rows of flashCardsToInsert, with the ids the table assigns
RowsToInsert(cards, sid, uid, firstId) ==
    {NewCard(firstId + i - 1, uid, sid, cards[i].front, cards[i].back) :
        i \in 1..Len(cards)}

\* insert into flash_cards as the client's current user: RLS with check,
\* then the foreign key
InsertAllowed(uid, rows) ==
    /\ \A r \in rows : RlsOwn(uid, r)
    /\ \A r \in rows : FkOk(r.session_id)

\* await supabaseClient.from('flash_cards').insert(flashCardsToInsert)
SFS_insert ==
    /\ pc = "insert"
    /\ LET rows == RowsToInsert(commit.cards, commit.session, commit.userId, nextCardId)
       IN \E dbError \in BOOLEAN :
            IF dbError \/ ~InsertAllowed(authUser, rows)
               \/ nextCardId + Len(commit.cards) - 1 > MaxCards
            THEN /\ pc' = "cleanup"
                 /\ UNCHANGED <<dbVars, commit>>
            ELSE /\ flash_cards' = flash_cards \cup rows
                 /\ nextCardId' = nextCardId + Len(commit.cards)
                 /\ pc' = "done"
                 /\ commit' = [commit EXCEPT !.result = "ok", !.firstId = nextCardId]
                 /\ UNCHANGED <<sessions, nextSessionId>>
    /\ UNCHANGED <<genVars, authUser, uiVars, histVars>>

\* the cleanup with the delete tried again for as long as it fails
SFS_cleanup_Retry ==
    /\ pc = "cleanup"
    /\ \E dbError \in BOOLEAN :
         IF dbError
         THEN /\ UNCHANGED <<sessions, flash_cards, cascaded, pc>>
              /\ commit' = [commit EXCEPT !.deleteAttempts = @ + 1,
                                          !.deleteFailed = TRUE]
         ELSE /\ DbDeleteSession(authUser, commit.session)
              /\ pc' = "done"
              /\ commit' = [commit EXCEPT !.result = "error",
                                          !.deleteAttempts = @ + 1]
    /\ UNCHANGED <<genVars, nextSessionId, nextCardId, authUser, uiVars, acceptCount, staged>>

\* if (error) { await deleteSession(session.id); throw ... }: deleteSession
\* throws its own error when the delete fails, and either error leaves through
\* the catch block
SFS_cleanup ==
    /\ pc = "cleanup"
    /\ \E dbError \in BOOLEAN :
         /\ IF dbError
            THEN UNCHANGED <<sessions, flash_cards, cascaded>>
            ELSE DbDeleteSession(authUser, commit.session)
         /\ commit' = [commit EXCEPT !.result = "error", !.deleteAttempts = @ + 1,
                                     !.deleteFailed = dbError]
    /\ pc' = "done"
    /\ UNCHANGED <<genVars, nextSessionId, nextCardId, authUser, uiVars, acceptCount, staged>>

\* a direct call of the exported function, and its return to that caller
DirectBatches == {<<>>, <<[front |-> TxtQ, back |-> TxtA]>>}

saveFlashCardsToSession(flashCards, sessionName) ==
    /\ BeginCommit(flashCards, sessionName, "direct")
    /\ UNCHANGED <<genVars, dbVars, authUser, uiVars, histVars>>

SFS_return ==
    /\ pc = "done"
    /\ commit.via = "direct"
    /\ pc' = "idle"
    /\ commit' = IdleCommit
    /\ UNCHANGED <<genVars, dbVars, authUser, uiVars, histVars>>

(* ---------------------------------------------------------------------- *)
(* src/components/FlashCardApp.tsx: the staged batch                       *)
(* ---------------------------------------------------------------------- *)
\* data.flashcards of a successful generate response: n cards
GenCard(i) == [front |-> IF i % 2 = 1 THEN TxtQ ELSE TxtR, back |-> TxtA]

\* id: Math.random().toString(36).substring(7), drawn for each card on its
\* own: nothing keeps two cards of a batch from drawing the same id. The
\* handlers only compare ids, so each pattern of equal ids is given once: the
\* first card has id 1 and every card has an earlier card's id or the next
\* unused one.
IdChoices(n) ==
    {ids \in [1..n -> 1..n] :
        \A i \in 1..n :
            ids[i] = 1 \/ \E j \in 1..(i - 1) : ids[i] <= ids[j] + 1}

\* withStatus
Staged(n, ids) ==
    [i \in 1..n |-> [id |-> ids[i], front |-> GenCard(i).front,
                     back |-> GenCard(i).back, status |-> "pending"]]

\* useState(false), useState(flashCard.front), useState(flashCard.back)
Mounted(batch) ==
    [i \in 1..Len(batch) |->
        [isEditing |-> FALSE, editedFront |-> batch[i].front,
         editedBack |-> batch[i].back]]

NoAccepts(batch) == [i \in 1..Len(batch) |-> 0]

\* handleGenerate up to its await
GenerateStart ==
    /\ ~isLoading
    /\ staged < MaxBatches
    /\ error' = ""
    /\ isLoading' = TRUE
    /\ UNCHANGED <<genVars, dbVars, authUser, commitVars, generatedFlashCards, cardUi,
                   isSessionModalOpen, modal, histVars>>

\* the response is ok: setGeneratedFlashCards(withStatus)
GenerateOk(n) ==
    /\ isLoading
    /\ \E ids \in IdChoices(n) :
          /\ generatedFlashCards' = Staged(n, ids)
          /\ cardUi' = Mounted(Staged(n, ids))
          /\ acceptCount' = NoAccepts(Staged(n, ids))
    /\ staged' = staged + 1
    /\ isLoading' = FALSE
    /\ UNCHANGED <<genVars, dbVars, authUser, commitVars, error, isSessionModalOpen, modal,
                   cascaded>>

\* a failure that reports the error and leaves the staged batch in place
GenerateFail_KeepBatch ==
    /\ isLoading
    /\ error' = "generate failed"
    /\ isLoading' = FALSE
    /\ UNCHANGED <<genVars, dbVars, authUser, commitVars, isSessionModalOpen, modal,
                   histVars, generatedFlashCards, cardUi>>

\* the response is not ok, or fetch throws
GenerateFail ==
    /\ isLoading
    /\ error' = "generate failed"
    /\ generatedFlashCards' = <<>>
    /\ cardUi' = <<>>
    /\ acceptCount' = <<>>
    /\ isLoading' = FALSE
    /\ UNCHANGED <<genVars, dbVars, authUser, commitVars, isSessionModalOpen, modal, cascaded, staged>>

\* an accept that sets the status and keeps the text of the candidate
handleAccept_KeepText(id, front, back) ==
    [i \in 1..Len(generatedFlashCards) |->
        IF generatedFlashCards[i].id = id
        THEN [generatedFlashCards[i] EXCEPT !.status = "accepted"]
        ELSE generatedFlashCards[i]]

\* prev.map(fc => fc.id === id ? {...fc, front, back, status: 'accepted'} : fc)
handleAccept(id, front, back) ==
    [i \in 1..Len(generatedFlashCards) |->
        IF generatedFlashCards[i].id = id
        THEN [generatedFlashCards[i] EXCEPT !.front = front, !.back = back,
                                            !.status = "accepted"]
        ELSE generatedFlashCards[i]]

\* prev.map(fc => fc.id === id ? {...fc, status: 'rejected'} : fc)
handleReject(id) ==
    [i \in 1..Len(generatedFlashCards) |->
        IF generatedFlashCards[i].id = id
        THEN [generatedFlashCards[i] EXCEPT !.status = "rejected"]
        ELSE generatedFlashCards[i]]

Positions == 1..Len(generatedFlashCards)

(* ---------------------------------------------------------------------- *)
(* src/components/FlashCard.tsx: the card at position i of the list        *)
(* ---------------------------------------------------------------------- *)
\* if (editedFront.trim() && editedBack.trim())
CanSave(i) ==
    Truthy(Trim(cardUi[i].editedFront)) /\ Truthy(Trim(cardUi[i].editedBack))

\* handleSave: onAccept(flashCard.id, editedFront, editedBack); setIsEditing(false)
handleSave(i) ==
    IF CanSave(i)
    THEN /\ acceptCount[i] < MaxAccepts
         /\ generatedFlashCards' =
               handleAccept(generatedFlashCards[i].id, cardUi[i].editedFront,
                            cardUi[i].editedBack)
         /\ cardUi' = [cardUi EXCEPT ![i].isEditing = FALSE]
         /\ acceptCount' =
               [j \in Positions |->
                   IF generatedFlashCards[j].id = generatedFlashCards[i].id
                   THEN acceptCount[j] + 1 ELSE acceptCount[j]]
    ELSE UNCHANGED <<generatedFlashCards, cardUi, acceptCount>>

\* button "Akceptuj": shown when not editing, disabled when accepted
ClickAccept(i) ==
    /\ i \in Positions
    /\ ~cardUi[i].isEditing
    /\ generatedFlashCards[i].status # "accepted"
    /\ handleSave(i)
    /\ UNCHANGED <<genVars, dbVars, authUser, commitVars, isLoading, error,
                   isSessionModalOpen, modal, cascaded, staged>>

\* button "Edytuj": shown when not editing, disabled when accepted
ClickEdit(i) ==
    /\ i \in Positions
    /\ ~cardUi[i].isEditing
    /\ generatedFlashCards[i].status # "accepted"
    /\ cardUi' = [cardUi EXCEPT ![i].isEditing = TRUE]
    /\ UNCHANGED <<genVars, dbVars, authUser, commitVars, generatedFlashCards, isLoading,
                   error, isSessionModalOpen, modal, histVars>>

\* button "Odrzuc": shown when not editing, never disabled
ClickReject(i) ==
    /\ i \in Positions
    /\ ~cardUi[i].isEditing
    /\ generatedFlashCards' = handleReject(generatedFlashCards[i].id)
    /\ UNCHANGED <<genVars, dbVars, authUser, commitVars, cardUi, isLoading, error,
                   isSessionModalOpen, modal, histVars>>

\* the textareas, shown while editing
TypeFront(i, t) ==
    /\ i \in Positions
    /\ cardUi[i].isEditing
    /\ cardUi' = [cardUi EXCEPT ![i].editedFront = t]
    /\ UNCHANGED <<genVars, dbVars, authUser, commitVars, generatedFlashCards, isLoading,
                   error, isSessionModalOpen, modal, histVars>>

TypeBack(i, t) ==
    /\ i \in Positions
    /\ cardUi[i].isEditing
    /\ cardUi' = [cardUi EXCEPT ![i].editedBack = t]
    /\ UNCHANGED <<genVars, dbVars, authUser, commitVars, generatedFlashCards, isLoading,
                   error, isSessionModalOpen, modal, histVars>>

\* button "Zapisz", shown while editing
ClickSave(i) ==
    /\ i \in Positions
    /\ cardUi[i].isEditing
    /\ handleSave(i)
    /\ UNCHANGED <<genVars, dbVars, authUser, commitVars, isLoading, error,
                   isSessionModalOpen, modal, cascaded, staged>>

\* button "Anuluj", shown while editing
ClickCancel(i) ==
    /\ i \in Positions
    /\ cardUi[i].isEditing
    /\ cardUi' = [cardUi EXCEPT ![i] =
                     [isEditing |-> FALSE,
                      editedFront |-> generatedFlashCards[i].front,
                      editedBack |-> generatedFlashCards[i].back]]
    /\ UNCHANGED <<genVars, dbVars, authUser, commitVars, generatedFlashCards, isLoading,
                   error, isSessionModalOpen, modal, histVars>>

(* ---------------------------------------------------------------------- *)
(* FlashCardList.tsx, SessionModal.tsx and handleSessionSave               *)
(* ---------------------------------------------------------------------- *)
acceptedCount ==
    Cardinality({i \in Positions : generatedFlashCards[i].status = "accepted"})

\* button "Zapisz do sesji", rendered when acceptedCount > 0
handleSaveToSession ==
    /\ acceptedCount > 0
    /\ isSessionModalOpen' = TRUE
    /\ UNCHANGED <<genVars, dbVars, authUser, commitVars, generatedFlashCards, cardUi,
                   isLoading, error, modal, histVars>>

\* generatedFlashCards.filter(fc => fc.status === 'accepted')
\*                    .map(({front, back}) => ({front, back}))
IsAccepted(fc) == fc.status = "accepted"

FrontBack(batch) == [i \in 1..Len(batch) |-> [front |-> batch[i].front, back |-> batch[i].back]]

\* a snapshot that leaves the filter out
acceptedFlashCards_NoFilter(batch) == FrontBack(batch)

acceptedFlashCards(batch) == FrontBack(SelectSeq(batch, IsAccepted))

\* the input of the dialog, disabled while saving
TypeSessionName(t) ==
    /\ isSessionModalOpen
    /\ ~modal.isSaving
    /\ modal' = [modal EXCEPT !.sessionName = t]
    /\ UNCHANGED <<genVars, dbVars, authUser, commitVars, generatedFlashCards, cardUi,
                   isLoading, error, isSessionModalOpen, histVars>>

\* SessionModal.handleSave up to the await inside onSave = handleSessionSave
ModalHandleSave ==
    /\ isSessionModalOpen
    /\ ~modal.isSaving
    /\ pc = "idle"
    /\ IF ~Truthy(Trim(modal.sessionName))
       THEN /\ modal' = [modal EXCEPT !.error = "empty name"]
            /\ UNCHANGED <<commitVars, error>>
       ELSE IF acceptedFlashCards(generatedFlashCards) = <<>>
       THEN \* handleSessionSave throws at once; both catch blocks run
            /\ error' = "no accepted cards"
            /\ modal' = [modal EXCEPT !.error = "no accepted cards", !.isSaving = FALSE]
            /\ UNCHANGED commitVars
       ELSE /\ modal' = [modal EXCEPT !.isSaving = TRUE, !.error = ""]
            /\ pc' = "createSession"
            /\ commit' = [IdleCommit EXCEPT
                             !.cards = acceptedFlashCards(generatedFlashCards),
                             !.name = modal.sessionName, !.via = "ui",
                             !.result = "pending", !.batch = generatedFlashCards,
                             !.accepts = acceptCount]
            /\ UNCHANGED error
    /\ UNCHANGED <<genVars, dbVars, authUser, generatedFlashCards, cardUi, isLoading,
                   isSessionModalOpen, histVars>>

\* SessionModal.handleClose: backdrop, Escape or "Anuluj"
ModalHandleClose ==
    /\ isSessionModalOpen
    /\ ~modal.isSaving
    /\ modal' = [modal EXCEPT !.error = "", !.sessionName = DefaultName]
    /\ isSessionModalOpen' = FALSE
    /\ UNCHANGED <<genVars, dbVars, authUser, commitVars, generatedFlashCards, cardUi,
                   isLoading, error, histVars>>

\* a return that leaves the batch staged and the dialog open after a success
SessionSaveReturn_KeepBatch ==
    /\ pc = "done"
    /\ commit.via = "ui"
    /\ pc' = "idle"
    /\ IF commit.result = "ok"
       THEN /\ modal' = [modal EXCEPT !.isSaving = FALSE]
            /\ UNCHANGED error
       ELSE /\ error' = "commit failed"
            /\ modal' = [modal EXCEPT !.error = "commit failed", !.isSaving = FALSE]
    /\ commit' = IdleCommit
    /\ UNCHANGED <<genVars, dbVars, authUser, isLoading, cascaded, staged,
                   generatedFlashCards, cardUi, acceptCount, isSessionModalOpen>>

\* a return that empties the batch and closes the dialog after a failure too
SessionSaveReturn_ClearAlways ==
    /\ pc = "done"
    /\ commit.via = "ui"
    /\ pc' = "idle"
    /\ generatedFlashCards' = <<>>
    /\ cardUi' = <<>>
    /\ acceptCount' = <<>>
    /\ isSessionModalOpen' = FALSE
    /\ IF commit.result = "ok"
       THEN /\ modal' = [modal EXCEPT !.isSaving = FALSE]
            /\ UNCHANGED error
       ELSE /\ error' = "commit failed"
            /\ modal' = [modal EXCEPT !.error = "commit failed", !.isSaving = FALSE]
    /\ commit' = IdleCommit
    /\ UNCHANGED <<genVars, dbVars, authUser, isLoading, cascaded, staged>>

\* saveFlashCardsToSession has settled: the rest of handleSessionSave and of
\* SessionModal.handleSave
SessionSaveReturn ==
    /\ pc = "done"
    /\ commit.via = "ui"
    /\ pc' = "idle"
    /\ IF commit.result = "ok"
       THEN /\ generatedFlashCards' = <<>>
            /\ cardUi' = <<>>
            /\ acceptCount' = <<>>
            /\ isSessionModalOpen' = FALSE
            /\ modal' = [modal EXCEPT !.isSaving = FALSE]
            /\ UNCHANGED error
       ELSE /\ error' = "commit failed"
            /\ modal' = [modal EXCEPT !.error = "commit failed", !.isSaving = FALSE]
            /\ UNCHANGED <<generatedFlashCards, cardUi, acceptCount, isSessionModalOpen>>
    /\ commit' = IdleCommit
    /\ UNCHANGED <<genVars, dbVars, authUser, isLoading, cascaded, staged>>

(* ---------------------------------------------------------------------- *)
(* REST endpoints: /api/sessions/:id                                       *)
(* u is locals.user; locals.supabase runs its queries as u.                *)
(* ---------------------------------------------------------------------- *)
NameMax == 255
TextMax == 1000

\* z.string().min(1).max(255)
ValidName(name) == Len(name) >= 1 /\ Len(name) <= NameMax
\* z.string().min(1).max(1000)
ValidText(t) == Len(t) >= 1 /\ Len(t) <= TextMax

\* .eq('id', sessionId).eq('user_id', locals.user.id), under RLS
OwnSessions(u, id) == {s \in VisibleSessions(u) : s.id = id /\ s.user_id = u}

SessionsIdGET(u, id) ==
    IF u = NoUser THEN AuthRequired("GET /api/sessions/:id", u)
    ELSE IF OwnSessions(u, id) = {}
    THEN ApiError("GET /api/sessions/:id", u, 404, "SESSION_NOT_FOUND", "Session not found")
    ELSE LET cards == {c \in VisibleCards(u) : c.session_id = id}
         IN Resp("GET /api/sessions/:id", u, 200, "",
                 OwnersOf(OwnSessions(u, id)) \cup OwnersOf(cards), IdsOf(cards))

SessionsIdPUT_resp(u, id, name) ==
    IF u = NoUser THEN AuthRequired("PUT /api/sessions/:id", u)
    ELSE IF ~ValidName(name)
    THEN ApiError("PUT /api/sessions/:id", u, 400, "VALIDATION_FAILED", "Validation failed")
    ELSE IF OwnSessions(u, id) = {}
    THEN ApiError("PUT /api/sessions/:id", u, 404, "SESSION_NOT_FOUND", "Session not found")
    ELSE Resp("PUT /api/sessions/:id", u, 200, "", OwnersOf(OwnSessions(u, id)), {id})

SessionsIdPUT(u, id, name) ==
    LET hit == IF u # NoUser /\ ValidName(name) THEN OwnSessions(u, id) ELSE {} IN
    /\ sessions' = (sessions \ hit) \cup {[s EXCEPT !.name = name] : s \in hit}
    /\ UNCHANGED <<genVars, flash_cards, nextSessionId, nextCardId, authUser, commitVars, uiVars, histVars>>

\* delete().eq('id', sessionId).eq('user_id', ...): no row is not an error
SessionsIdDELETE_resp(u, id) ==
    IF u = NoUser THEN AuthRequired("DELETE /api/sessions/:id", u)
    ELSE [Resp("DELETE /api/sessions/:id", u, 200, "", {}, {}) EXCEPT !.message = "success"]

SessionsIdDELETE(u, id) ==
    /\ IF u = NoUser
       THEN UNCHANGED <<sessions, flash_cards, cascaded>>
       ELSE LET hit == OwnSessions(u, id) IN
            /\ sessions' = sessions \ hit
            /\ flash_cards' = flash_cards \ CascadeCards(IdsOf(hit))
            /\ cascaded' = cascaded \cup IdsOf(CascadeCards(IdsOf(hit)))
    /\ UNCHANGED <<genVars, nextSessionId, nextCardId, authUser, commitVars, uiVars, acceptCount, staged>>

\* src/pages/api/sessions/[id].ts: no auth check, deleteSession() of the
\* storage layer through the module-level client, which has no user on the
\* server
ServerClientUser == NoUser

LegacySessionsIdDELETE_resp(id) ==
    [Resp("DELETE /api/sessions/:id", NoUser, 200, "", {}, {}) EXCEPT !.message = "success"]

LegacySessionsIdDELETE(id) ==
    /\ DbDeleteSession(ServerClientUser, id)
    /\ UNCHANGED <<genVars, nextSessionId, nextCardId, authUser, commitVars, uiVars, acceptCount, staged>>

(* ---------------------------------------------------------------------- *)
(* REST endpoints: /api/sessions                                           *)
(* ---------------------------------------------------------------------- *)
SessionsGET(u) ==
    IF u = NoUser THEN AuthRequired("GET /api/sessions", u)
    ELSE LET rows == {s \in VisibleSessions(u) : s.user_id = u}
         IN Resp("GET /api/sessions", u, 200, "", OwnersOf(rows), IdsOf(rows))

SessionsPOST_resp(u, name) ==
    IF u = NoUser THEN AuthRequired("POST /api/sessions", u)
    ELSE IF ~ValidName(name)
    THEN ApiError("POST /api/sessions", u, 400, "VALIDATION_FAILED", "Validation failed")
    ELSE IF nextSessionId > MaxSessions
    THEN ApiError("POST /api/sessions", u, 500, "INTERNAL_ERROR", "Failed to create session")
    ELSE Resp("POST /api/sessions", u, 201, "", {u}, {nextSessionId})

SessionsPOST(u, name) ==
    /\ IF SessionsPOST_resp(u, name).status = 201
       THEN /\ sessions' = sessions \cup {NewSession(nextSessionId, u, name)}
            /\ nextSessionId' = nextSessionId + 1
       ELSE UNCHANGED <<sessions, nextSessionId>>
    /\ UNCHANGED <<genVars, flash_cards, nextCardId, authUser, commitVars, uiVars, histVars>>

(* ---------------------------------------------------------------------- *)
(* REST endpoints: /api/flashcards                                         *)
(* ---------------------------------------------------------------------- *)
\* select(... sessions!inner(user_id)).eq('sessions.user_id', u), under RLS on
\* both tables: the card is visible and its session is a visible session of u
CardsViaSession(u) ==
    {c \in VisibleCards(u) : OwnSessions(u, c.session_id) # {}}

FlashcardsGET(u, filterOn, sessionId) ==
    IF u = NoUser THEN AuthRequired("GET /api/flashcards", u)
    ELSE LET rows == {c \in CardsViaSession(u) : filterOn => c.session_id = sessionId}
         IN Resp("GET /api/flashcards", u, 200, "", OwnersOf(rows), IdsOf(rows))

FlashcardsPOST_resp(u, session_id, front, back) ==
    IF u = NoUser THEN AuthRequired("POST /api/flashcards", u)
    ELSE IF ~(session_id # NoId /\ ValidText(front) /\ ValidText(back))
    THEN ApiError("POST /api/flashcards", u, 400, "VALIDATION_FAILED", "Validation failed")
    ELSE IF OwnSessions(u, session_id) = {}
    THEN ApiError("POST /api/flashcards", u, 404, "SESSION_NOT_FOUND",
                  "Session not found or access denied")
    ELSE IF nextCardId > MaxCards
    THEN ApiError("POST /api/flashcards", u, 500, "INTERNAL_ERROR",
                  "Failed to create flashcard")
    ELSE Resp("POST /api/flashcards", u, 201, "", {u}, {nextCardId})

FlashcardsPOST(u, session_id, front, back) ==
    /\ IF FlashcardsPOST_resp(u, session_id, front, back).status = 201
       THEN /\ flash_cards' = flash_cards \cup
                   {NewCard(nextCardId, u, session_id, front, back)}
            /\ nextCardId' = nextCardId + 1
       ELSE UNCHANGED <<flash_cards, nextCardId>>
    /\ UNCHANGED <<genVars, sessions, nextSessionId, authUser, commitVars, uiVars, histVars>>

(* ---------------------------------------------------------------------- *)
(* REST endpoints: /api/flashcards/:id                                     *)
(* ---------------------------------------------------------------------- *)
OwnCards(u, id) == {c \in CardsViaSession(u) : c.id = id}

FlashcardsIdGET(u, id) ==
    IF u = NoUser THEN AuthRequired("GET /api/flashcards/:id", u)
    ELSE IF OwnCards(u, id) = {}
    THEN ApiError("GET /api/flashcards/:id", u, 404, "FLASHCARD_NOT_FOUND",
                  "Flashcard not found")
    ELSE Resp("GET /api/flashcards/:id", u, 200, "", OwnersOf(OwnCards(u, id)), {id})

FlashcardsIdPUT_resp(u, id, front, back) ==
    IF u = NoUser THEN AuthRequired("PUT /api/flashcards/:id", u)
    ELSE IF ~(ValidText(front) /\ ValidText(back))
    THEN ApiError("PUT /api/flashcards/:id", u, 400, "VALIDATION_FAILED", "Validation failed")
    ELSE IF OwnCards(u, id) = {}
    THEN ApiError("PUT /api/flashcards/:id", u, 404, "FLASHCARD_NOT_FOUND",
                  "Flashcard not found")
    ELSE Resp("PUT /api/flashcards/:id", u, 200, "", OwnersOf(OwnCards(u, id)), {id})

FlashcardsIdPUT(u, id, front, back) ==
    LET ok == FlashcardsIdPUT_resp(u, id, front, back).status = 200
        hit == IF ok THEN {c \in VisibleCards(u) : c.id = id} ELSE {}
    IN /\ flash_cards' = (flash_cards \ hit) \cup
              {[c EXCEPT !.front = front, !.back = back] : c \in hit}
       /\ UNCHANGED <<genVars, sessions, nextSessionId, nextCardId, authUser, commitVars, uiVars, histVars>>

FlashcardsIdDELETE_resp(u, id) ==
    IF u = NoUser THEN AuthRequired("DELETE /api/flashcards/:id", u)
    ELSE IF OwnCards(u, id) = {}
    THEN ApiError("DELETE /api/flashcards/:id", u, 404, "FLASHCARD_NOT_FOUND",
                  "Flashcard not found")
    ELSE [Resp("DELETE /api/flashcards/:id", u, 200, "", {}, {})
             EXCEPT !.message = "success"]

FlashcardsIdDELETE(u, id) ==
    LET ok == FlashcardsIdDELETE_resp(u, id).status = 200
        hit == IF ok THEN {c \in VisibleCards(u) : c.id = id} ELSE {}
    IN /\ flash_cards' = flash_cards \ hit
       /\ UNCHANGED <<genVars, sessions, nextSessionId, nextCardId, authUser, commitVars, uiVars, histVars>>

(* ---------------------------------------------------------------------- *)
(* src/pages/api/flashcards/generate.ts: POST /api/flashcards/generate     *)
(* ---------------------------------------------------------------------- *)
MaxEntries == 2

GenMinLen == 100
GenMaxLen == 10000

\* The text of a request is given by its shape: ws1 whitespace characters,
\* body characters of which the first and the last are not whitespace, ws2
\* whitespace characters.
TextShape(ws1, body, ws2) == [ws1 |-> ws1, body |-> body, ws2 |-> ws2]

\* val.length
RawLength(t) == t.ws1 + t.body + t.ws2

\* val.trim().length
TrimLength(t) == RawLength(t) - t.ws1 - t.ws2

\* the request body: not JSON at all, JSON whose text is not a string, or JSON
\* with a text
BodyNotJson == [json |-> FALSE, isString |-> FALSE, text |-> TextShape(0, 0, 0)]
BodyNoText == [json |-> TRUE, isString |-> FALSE, text |-> TextShape(0, 0, 0)]
BodyText(t) == [json |-> TRUE, isString |-> TRUE, text |-> t]

\* generateFlashCardsSchema.safeParse(body): the checks that fail
generateFlashCardsSchema(body) ==
    IF ~body.isString THEN {"string"}
    ELSE (IF RawLength(body.text) < GenMinLen THEN {"min"} ELSE {})
         \cup (IF RawLength(body.text) > GenMaxLen THEN {"max"} ELSE {})
         \cup (IF TrimLength(body.text) >= GenMinLen THEN {} ELSE {"refine"})

\* JavaScript values found in the provider's entries
JsStr(t) == [k |-> "string", s |-> t, n |-> 0]
JsNum(n) == [k |-> "number", s |-> <<>>, n |-> n]
JsUndefined == [k |-> "undefined", s |-> <<>>, n |-> 0]

\* truthiness, as tested by card.front && card.back
JsTruthy(v) ==
    CASE v.k = "string" -> Truthy(v.s)
      [] v.k = "number" -> v.n # 0
      [] OTHER -> FALSE

RECURSIVE Digits(_)
Digits(n) ==
    LET chars == <<"0", "1", "2", "3", "4", "5", "6", "7", "8", "9">> IN
    IF n < 10 THEN <<chars[n + 1]>>
    ELSE Digits(n \div 10) \o <<chars[(n % 10) + 1]>>

\* String(value)
JsString(v) ==
    CASE v.k = "string" -> v.s
      [] v.k = "number" -> Digits(v.n)
      [] OTHER -> <<"u", "n", "d", "e", "f", "i", "n", "e", "d">>

\* an entry of content.flashcards: an object with front and back, or null
Entry(front, back) == [isNull |-> FALSE, front |-> front, back |-> back]
EntryNull == [isNull |-> TRUE, front |-> JsUndefined, back |-> JsUndefined]

\* thrown errors: name and message
Err(name, message) == [name |-> name, message |-> message]

MsgInvalidFlashcards == <<"Invalid flashcards structure in AI response">>
MsgApiError(status) == <<"OpenRouter API error: ">> \o Digits(status)

\* .filter((card) => card.front && card.back)
\*  .map((card) => ({front: String(card.front).trim(), back: ...}))
KeepsCard(card) == JsTruthy(card.front) /\ JsTruthy(card.back)

RECURSIVE MapCards(_)
MapCards(cards) ==
    IF cards = <<>> THEN <<>>
    ELSE <<[front |-> Trim(JsString(Head(cards).front)),
            back |-> Trim(JsString(Head(cards).back))]>> \o MapCards(Tail(cards))

TransformCards(entries) == MapCards(SelectSeq(entries, KeepsCard))

\* the try block from the reply of fetch on: what it returns or throws
Returned(flashcards) == [ok |-> TRUE, flashcards |-> flashcards, error |-> Err("", <<>>)]
Thrown(e) == [ok |-> FALSE, flashcards |-> <<>>, error |-> e]

GenerateTry(up) ==
    CASE up.kind = "timeout" -> Thrown(Err("TimeoutError", <<"The operation timed out">>))
      [] up.kind = "network" -> Thrown(Err("TypeError", <<"fetch failed">>))
      [] up.kind = "status" -> Thrown(Err("Error", MsgApiError(up.status)))
      [] up.kind = "bodyNotJson" -> Thrown(Err("SyntaxError", <<"Unexpected token">>))
      [] up.kind = "noChoices" -> Thrown(Err("Error", <<"Invalid response structure from OpenRouter">>))
      [] up.kind = "contentNotJson" -> Thrown(Err("SyntaxError", <<"Unexpected token">>))
      [] up.kind = "noArray" -> Thrown(Err("Error", MsgInvalidFlashcards))
      [] OTHER ->
            IF \E i \in 1..Len(up.entries) : up.entries[i].isNull
            THEN Thrown(Err("TypeError", <<"Cannot read properties of null">>))
            ELSE IF Len(TransformCards(up.entries)) = 0
                 THEN Thrown(Err("Error", <<"No valid flashcards were generated">>))
                 ELSE Returned(TransformCards(up.entries))

\* the responses of the handler
GenResponse(status, code, message, fields, flashcards) ==
    [status |-> status, code |-> code, message |-> message, fields |-> fields,
     flashcards |-> flashcards]
GenError(status, code, message) == GenResponse(status, code, message, {}, <<>>)

\* the catch block with the generic branch echoing error.message
GenerateCatch_Echo(e) ==
    IF e.name = "AbortError" \/ e.name = "TimeoutError"
    THEN GenError(500, "AI_SERVICE_TIMEOUT",
                  <<"AI generation timed out - please try again with shorter text">>)
    ELSE IF e.name = "SyntaxError" \/ e.message = MsgInvalidFlashcards
    THEN GenError(500, "AI_PARSE_ERROR",
                  <<"Failed to parse AI response - please try again">>)
    ELSE GenError(500, "AI_SERVICE_ERROR", e.message)

\* catch (error) { ... }
GenerateCatch(e) ==
    IF e.name = "AbortError" \/ e.name = "TimeoutError"
    THEN GenError(500, "AI_SERVICE_TIMEOUT",
                  <<"AI generation timed out - please try again with shorter text">>)
    ELSE IF e.name = "SyntaxError" \/ e.message = MsgInvalidFlashcards
    THEN GenError(500, "AI_PARSE_ERROR",
                  <<"Failed to parse AI response - please try again">>)
    ELSE GenError(500, "AI_SERVICE_ERROR",
                  <<"Failed to generate flashcards - please try again later">>)

\* the response once fetch has settled
GenerateReply(up) ==
    LET r == GenerateTry(up) IN
    IF r.ok THEN GenResponse(200, "", <<>>, {}, r.flashcards)
    ELSE GenerateCatch(r.error)

NoUpstream == [kind |-> "none", status |-> 0, payload |-> "", entries |-> <<>>]

IdleGenerate ==
    [pc |-> "idle", caller |-> NoUser, body |-> BodyNotJson, calls |-> 0,
     pending |-> FALSE, upstream |-> NoUpstream, response |-> GenResponse(0, "", <<>>, {}, <<>>)]

\* the handler with the fetch issued for a body that fails validation
GenerateFlashcardsPOST_NoValidation(u, body) ==
    /\ gen.pc \in {"idle", "done"}
    /\ genPrev' = gen
    /\ IF u = NoUser
       THEN gen' = [IdleGenerate EXCEPT !.pc = "done", !.caller = u, !.body = body,
                        !.response = GenError(401, "AUTH_REQUIRED",
                            <<"Unauthorized - authentication required">>)]
       ELSE IF ~body.json
       THEN gen' = [IdleGenerate EXCEPT !.pc = "done", !.caller = u, !.body = body,
                        !.response = GenError(400, "VALIDATION_FAILED",
                            <<"Invalid JSON in request body">>)]
       ELSE gen' = [IdleGenerate EXCEPT !.pc = "fetch", !.caller = u, !.body = body,
                        !.calls = 1, !.pending = TRUE]
    /\ UNCHANGED <<dbVars, authUser, commitVars, uiVars, histVars>>

\* POST up to `await fetch(...)`: steps 1 to 3 answer at once, step 4 issues
\* the call to the provider
GenerateFlashcardsPOST(u, body) ==
    /\ gen.pc \in {"idle", "done"}
    /\ genPrev' = gen
    /\ IF u = NoUser
       THEN gen' = [IdleGenerate EXCEPT !.pc = "done", !.caller = u, !.body = body,
                        !.response = GenError(401, "AUTH_REQUIRED",
                            <<"Unauthorized - authentication required">>)]
       ELSE IF ~body.json
       THEN gen' = [IdleGenerate EXCEPT !.pc = "done", !.caller = u, !.body = body,
                        !.response = GenError(400, "VALIDATION_FAILED",
                            <<"Invalid JSON in request body">>)]
       ELSE IF generateFlashCardsSchema(body) # {}
       THEN gen' = [IdleGenerate EXCEPT !.pc = "done", !.caller = u, !.body = body,
                        !.response = GenResponse(400, "VALIDATION_FAILED",
                            <<"Validation failed">>,
                            generateFlashCardsSchema(body), <<>>)]
       ELSE gen' = [IdleGenerate EXCEPT !.pc = "fetch", !.caller = u, !.body = body,
                        !.calls = 1, !.pending = TRUE]
    /\ UNCHANGED <<dbVars, authUser, commitVars, uiVars, histVars>>

\* the handler with a deadline that ends the request and leaves the call open
GenerateFlashcardsSettle_NoAbort(up) ==
    /\ gen.pc = "fetch"
    /\ gen' = [gen EXCEPT !.pc = "done", !.upstream = up,
                          !.pending = (up.kind = "timeout"),
                          !.response = GenerateReply(up)]
    /\ UNCHANGED <<dbVars, authUser, commitVars, uiVars, histVars, genPrev>>

\* fetch settles and the handler runs to its response: the provider's reply
\* has been read to its end, or fetch has failed, or AbortSignal.timeout has
\* aborted the call
GenerateFlashcardsSettle(up) ==
    /\ gen.pc = "fetch"
    /\ gen' = [gen EXCEPT !.pc = "done", !.upstream = up, !.pending = FALSE,
                          !.response = GenerateReply(up)]
    /\ UNCHANGED <<dbVars, authUser, commitVars, uiVars, histVars, genPrev>>

(* ---------------------------------------------------------------------- *)
(* Specification of the store: storage layer and endpoints                 *)
(* ---------------------------------------------------------------------- *)
IdleModal == [sessionName |-> DefaultName, isSaving |-> FALSE, error |-> ""]

Init ==
    /\ sessions = {}
    /\ flash_cards = {}
    /\ nextSessionId = 1
    /\ nextCardId = 1
    /\ authUser = NoUser
    /\ pc = "idle"
    /\ commit = IdleCommit
    /\ generatedFlashCards = <<>>
    /\ cardUi = <<>>
    /\ isLoading = FALSE
    /\ error = ""
    /\ isSessionModalOpen = FALSE
    /\ modal = IdleModal
    /\ cascaded = {}
    /\ acceptCount = <<>>
    /\ staged = 0
    /\ gen = IdleGenerate
    /\ genPrev = IdleGenerate

Callers == Users \cup {NoUser}
AnySessionId == SessionIds
AnyCardId == CardIds

UpdateInputs ==
    [hasFront : BOOLEAN, front : {TxtE}, hasBack : {FALSE}, back : {TxtE},
     hasSession : BOOLEAN, sessionId : SessionIds \cup {NoId}]

Identity == (\E u \in Users : login(u)) \/ logout

StorageCards ==
    \/ \E sid \in SessionIds \cup {NoId} : saveFlashCard(TxtQ, TxtA, sid)
    \/ \E id \in AnyCardId : deleteFlashCard(id)
    \/ \E id \in AnyCardId, u \in UpdateInputs : updateFlashCard(id, u)

StorageSessions ==
    \/ createSession(DefaultName)
    \/ \E id \in AnySessionId : renameSession(id, OtherName)
    \/ \E id \in AnySessionId : deleteSession(id)

CommitSteps == SFS_createSession \/ SFS_getUser \/ SFS_insert \/ SFS_cleanup

DirectCommit ==
    \/ \E b \in DirectBatches : saveFlashCardsToSession(b, DefaultName)
    \/ SFS_return

ApiSessions ==
    \/ \E u \in Callers : SessionsPOST(u, DefaultName)
    \/ \E u \in Callers, id \in AnySessionId : SessionsIdPUT(u, id, OtherName)
    \/ \E u \in Callers, id \in AnySessionId : SessionsIdDELETE(u, id)
    \/ \E id \in AnySessionId : LegacySessionsIdDELETE(id)

ApiCards ==
    \/ \E u \in Callers, sid \in AnySessionId : FlashcardsPOST(u, sid, TxtQ, TxtA)
    \/ \E u \in Callers, id \in AnyCardId : FlashcardsIdPUT(u, id, TxtE, TxtA)
    \/ \E u \in Callers, id \in AnyCardId : FlashcardsIdDELETE(u, id)

Next ==
    \/ Identity
    \/ StorageCards
    \/ StorageSessions
    \/ ApiSessions
    \/ ApiCards

Spec == Init /\ [][Next]_vars

(* ---------------------------------------------------------------------- *)
(* Specification of the commit: saveFlashCardsToSession called directly,   *)
(* interleaved at its awaits with the identity changing and with other     *)
(* calls of the storage layer                                              *)
(* ---------------------------------------------------------------------- *)
NextCommit ==
    \/ Identity
    \/ DirectCommit
    \/ CommitSteps
    \/ \E id \in AnySessionId : deleteSession(id)
    \/ \E sid \in SessionIds \cup {NoId} : saveFlashCard(TxtQ, TxtA, sid)

SpecCommit == Init /\ [][NextCommit]_vars

(* ---------------------------------------------------------------------- *)
(* Specification of the review page: generate, review the batch, save it   *)
(* to a session                                                            *)
(* ---------------------------------------------------------------------- *)
BatchSizes == 1..MaxBatch
TypedFronts == {TxtE, TxtBlank}
TypedBacks == {TxtB}

Generate == GenerateStart \/ (\E n \in BatchSizes : GenerateOk(n)) \/ GenerateFail

Review ==
    \E i \in 1..MaxBatch :
        \/ ClickAccept(i)
        \/ ClickEdit(i)
        \/ ClickReject(i)
        \/ \E t \in TypedFronts : TypeFront(i, t)
        \/ \E t \in TypedBacks : TypeBack(i, t)
        \/ ClickSave(i)
        \/ ClickCancel(i)

SaveDialog ==
    \/ handleSaveToSession
    \/ TypeSessionName(TxtBlank)
    \/ ModalHandleSave
    \/ ModalHandleClose
    \/ SessionSaveReturn

\* one visitor signs in and out
Visitor == login("A") \/ logout

\* while a save is in flight the dialog's backdrop covers the list: the cards
\* behind it are operated only when no save is running
ReviewIdle == pc = "idle" /\ Review

\* the page stages one batch in its life
GenerateOnce ==
    \/ (staged = 0 /\ GenerateStart)
    \/ (\E n \in BatchSizes : GenerateOk(n))
    \/ GenerateFail

NextUI ==
    \/ Visitor
    \/ GenerateOnce
    \/ ReviewIdle
    \/ SaveDialog
    \/ CommitSteps

SpecUI == Init /\ [][NextUI]_vars

\* The page with a second generation requested while the first batch is
\* reviewed and saved: the list and its save button stay in use while
\* isLoading is set.
\* the generate button is pressed before the dialog covers it; its response
\* arrives whenever the server sends it
GenerateBehindDialog ==
    \/ (~isSessionModalOpen /\ GenerateStart)
    \/ (\E n \in BatchSizes : GenerateOk(n))
    \/ GenerateFail

AcceptIdle == pc = "idle" /\ ~isSessionModalOpen /\ \E i \in 1..MaxBatch : ClickAccept(i)

NextRestage ==
    \/ login("A")
    \/ GenerateBehindDialog
    \/ AcceptIdle
    \/ handleSaveToSession
    \/ ModalHandleSave
    \/ SessionSaveReturn
    \/ CommitSteps

SpecRestage == Init /\ [][NextRestage]_vars

NextReview == Generate \/ Review

SpecReview == Init /\ [][NextReview]_vars

(* ---------------------------------------------------------------------- *)
(* Specification of the generate endpoint: requests served one after the   *)
(* other, each with whatever the provider does                             *)
(* ---------------------------------------------------------------------- *)
GenTexts ==
    {TextShape(0, 99, 0), TextShape(50, 60, 0), TextShape(0, 0, 150),
     TextShape(0, 100, 0), TextShape(0, 10000, 0), TextShape(0, 10001, 0),
     TextShape(1, 10000, 0)}

GenBodies == {BodyNotJson, BodyNoText} \cup {BodyText(t) : t \in GenTexts}

EntryPool ==
    {Entry(JsStr(TxtQ), JsStr(TxtA)),
     Entry(JsStr(<<" ">> \o TxtE), JsStr(TxtB \o <<" ">>)),
     Entry(JsStr(TxtBlank), JsStr(TxtA)),
     Entry(JsStr(<<>>), JsStr(TxtA)),
     Entry(JsStr(TxtQ), JsUndefined),
     Entry(JsNum(5), JsStr(TxtA)),
     EntryNull}

Upstream(kind, status, payload, entries) ==
    [kind |-> kind, status |-> status, payload |-> payload, entries |-> entries]

GenUpstreams ==
    {Upstream(k, 0, "", <<>>) :
        k \in {"timeout", "network", "bodyNotJson", "noChoices",
               "contentNotJson", "noArray"}}
    \cup {Upstream("status", s, p, <<>>) :
            s \in {429, 500}, p \in {"rate limited", "internal error"}}
    \cup {Upstream("array", 200, "", es) :
            es \in UNION {[1..n -> EntryPool] : n \in 0..MaxEntries}}

NextGenerate ==
    \/ \E u \in Callers, body \in GenBodies : GenerateFlashcardsPOST(u, body)
    \/ \E up \in GenUpstreams : GenerateFlashcardsSettle(up)

SpecGenerate == Init /\ [][NextGenerate]_vars

\* signal: AbortSignal.timeout(30000): the timer of the deadline
GenerateDeadline == GenerateFlashcardsSettle(Upstream("timeout", 0, "", <<>>))

\* the provider may stay silent for ever; the timer does fire
SpecGenerateLive == Init /\ [][NextGenerate]_vars /\ WF_vars(GenerateDeadline)

(* ---------------------------------------------------------------------- *)
(* Specification of the writes: every operation that stores a session name *)
(* or a card text, called with names and texts at and beyond the limits    *)
(* ---------------------------------------------------------------------- *)
LongName == [i \in 1..(NameMax + 1) |-> "n"]
LongText == [i \in 1..(TextMax + 1) |-> "x"]

NameInputs == {DefaultName, <<>>, TxtBlank, LongName}
TextInputs == {TxtQ, <<>>, TxtBlank, LongText}

\* one visitor: the requests carry the session cookie of the signed-in user
NextInput ==
    \/ Visitor
    \/ \E name \in NameInputs : SessionsPOST(authUser, name)
    \/ \E name \in NameInputs : createSession(name)
    \/ \E name \in NameInputs :
          saveFlashCardsToSession(<<[front |-> TxtBlank, back |-> TxtA]>>, name)
    \/ CommitSteps
    \/ SFS_return
    \/ \E sid \in AnySessionId, t \in TextInputs : FlashcardsPOST(authUser, sid, t, TxtA)
    \/ \E id \in AnyCardId, t \in TextInputs : FlashcardsIdPUT(authUser, id, t, TxtA)
    \/ \E sid \in SessionIds \cup {NoId}, t \in TextInputs : saveFlashCard(t, TxtA, sid)

SpecInput == Init /\ [][NextInput]_vars

(* ---------------------------------------------------------------------- *)
(* Properties of the commit (checked under SpecCommit)                     *)
(* ---------------------------------------------------------------------- *)
\* C1: whenever saveFlashCardsToSession has created its Session row and then
\* ends in an error, it has attempted to delete that Session before the
\* error reaches the caller.
C1_CleanupBeforeError ==
    (pc = "done" /\ commit.result = "error" /\ commit.session # NoId)
        => commit.deleteAttempts >= 1

\* C2: a commit called with an empty list of cards never inserts a Session
\* row.
C2_EmptyCommitCreatesNothing ==
    (pc # "idle" /\ commit.cards = <<>>) => commit.session = NoId

\* C9: in every reachable state every flash_cards row with a non-null
\* session_id has the user_id of the sessions row it references.
C9_CardOwnerIsSessionOwner ==
    \A c \in flash_cards :
        (c.session_id # NoId /\ SessionExists(c.session_id))
            => c.user_id = SessionRow(c.session_id).user_id

(* ---------------------------------------------------------------------- *)
(* Properties of the store (checked under Spec)                            *)
(* ---------------------------------------------------------------------- *)
\* the calls of the storage layer run as the user of the browser client
StorageCallBy(u) == authUser = u /\ (StorageCards \/ StorageSessions)

\* the requests whose locals.user is u; the legacy DELETE route asks for no
\* user, so anybody can send it
ApiCallBy(u) ==
    \/ SessionsPOST(u, DefaultName)
    \/ \E id \in AnySessionId : SessionsIdPUT(u, id, OtherName)
    \/ \E id \in AnySessionId : SessionsIdDELETE(u, id)
    \/ \E id \in AnySessionId : LegacySessionsIdDELETE(id)
    \/ \E sid \in AnySessionId : FlashcardsPOST(u, sid, TxtQ, TxtA)
    \/ \E id \in AnyCardId : FlashcardsIdPUT(u, id, TxtE, TxtA)
    \/ \E id \in AnyCardId : FlashcardsIdDELETE(u, id)

\* the rows a step modifies or removes
TouchedRows == (sessions \ sessions') \cup (flash_cards \ flash_cards')

WritesOwnRowsOnly ==
    \A u \in Users :
        (StorageCallBy(u) \/ ApiCallBy(u)) => \A r \in TouchedRows : r.user_id = u

ReadsOwnRowsOnly ==
    \A u \in Users :
        /\ authUser = u =>
              /\ getFlashCards.owners \subseteq {u}
              /\ getSessions.owners \subseteq {u}
              /\ \A id \in AnySessionId :
                    getSessionWithFlashCards(id).owners \subseteq {u}
        /\ SessionsGET(u).owners \subseteq {u}
        /\ \A id \in AnySessionId : SessionsIdGET(u, id).owners \subseteq {u}
        /\ \A b \in BOOLEAN, id \in AnySessionId :
              FlashcardsGET(u, b, id).owners \subseteq {u}
        /\ \A id \in AnyCardId : FlashcardsIdGET(u, id).owners \subseteq {u}

\* C3: no call made by a user returns, modifies or removes a sessions or
\* flash_cards row owned by another user.
C3_OwnerRestricted == []ReadsOwnRowsOnly /\ [][WritesOwnRowsOnly]_vars

\* an id no row carries
MissingSessionId == MaxSessions + 1
MissingCardId == MaxCards + 1

ForeignSessionIds(u) == {s.id : s \in {t \in sessions : t.user_id # u}}
ForeignCardIds(u) == {c.id : c \in {d \in flash_cards : d.user_id # u}}

NotFound(r) == r.status = 404

\* C4: for get, update and delete of a session or flashcard by id, the id of
\* another user's row gets the same response as an id that no row carries,
\* and that response is a not-found error.
C4_ForeignIdIsNotFound ==
    \A u \in Users :
        /\ \A f \in ForeignSessionIds(u) :
              /\ SessionsIdGET(u, f) = SessionsIdGET(u, MissingSessionId)
              /\ NotFound(SessionsIdGET(u, f))
              /\ SessionsIdPUT_resp(u, f, OtherName)
                    = SessionsIdPUT_resp(u, MissingSessionId, OtherName)
              /\ NotFound(SessionsIdPUT_resp(u, f, OtherName))
              /\ SessionsIdDELETE_resp(u, f) = SessionsIdDELETE_resp(u, MissingSessionId)
              /\ NotFound(SessionsIdDELETE_resp(u, f))
        /\ \A f \in ForeignCardIds(u) :
              /\ FlashcardsIdGET(u, f) = FlashcardsIdGET(u, MissingCardId)
              /\ NotFound(FlashcardsIdGET(u, f))
              /\ FlashcardsIdPUT_resp(u, f, TxtE, TxtA)
                    = FlashcardsIdPUT_resp(u, MissingCardId, TxtE, TxtA)
              /\ NotFound(FlashcardsIdPUT_resp(u, f, TxtE, TxtA))
              /\ FlashcardsIdDELETE_resp(u, f) = FlashcardsIdDELETE_resp(u, MissingCardId)
              /\ NotFound(FlashcardsIdDELETE_resp(u, f))

\* no flash_cards row references a session that is not there
NoDanglingCards ==
    \A c \in flash_cards : c.session_id # NoId => SessionExists(c.session_id)

\* a step that removes a session removes every card bound to it
SessionDeleteRemovesCards ==
    \A s \in sessions :
        (\A t \in sessions' : t.id # s.id)
            => \A c \in flash_cards :
                  c.session_id = s.id => \A d \in flash_cards' : d.id # c.id

\* a card that went with its session is not found by any later get
CascadedCardsNotFound ==
    \A id \in cascaded :
        /\ ~CardExists(id)
        /\ \A u \in Users : NotFound(FlashcardsIdGET(u, id))
        /\ id \notin getFlashCards.ids

\* C10: after a session is deleted no flash_cards row references it: its
\* cards are removed together with it, and a later get of such a card is
\* not-found.
C10_DeleteCascades ==
    [](NoDanglingCards /\ CascadedCardsNotFound) /\ [][SessionDeleteRemovesCards]_vars

\* a session with a card has been deleted, and the card's owner asks for it
C10_Witness ==
    \E id \in cascaded : \E u \in Users : authUser = u /\ ~CardExists(id)

(* ---------------------------------------------------------------------- *)
(* Properties of the review (checked under SpecReview)                     *)
(* ---------------------------------------------------------------------- *)
\* position i holds the same candidate before and after the step
SameCandidate(i) ==
    /\ staged' = staged
    /\ i \in DOMAIN generatedFlashCards'
    /\ generatedFlashCards'[i].id = generatedFlashCards[i].id

\* C5: rejected is terminal: no step changes the status or the front/back
\* text of a candidate whose status is rejected.
C5_RejectedIsTerminal ==
    [][\A i \in Positions :
          (generatedFlashCards[i].status = "rejected" /\ SameCandidate(i))
              => generatedFlashCards'[i] = generatedFlashCards[i]]_vars

\* C6: a candidate that is accepted stays accepted until the batch ends: no
\* step takes it to rejected or back to pending.
C6_AcceptedStaysAccepted ==
    [][\A i \in Positions :
          (generatedFlashCards[i].status = "accepted" /\ SameCandidate(i))
              => generatedFlashCards'[i].status = "accepted"]_vars

(* ---------------------------------------------------------------------- *)
(* Properties of the save to a session (checked under SpecUI)              *)
(* ---------------------------------------------------------------------- *)
\* the commit started from the dialog has ended well and has not yet
\* returned to handleSessionSave
CommittedFromUi == pc = "done" /\ commit.result = "ok" /\ commit.via = "ui"

\* the positions of the batch the commit was started with that were accepted
AcceptedAtCommit ==
    {i \in 1..Len(commit.batch) : commit.batch[i].status = "accepted"}

\* the row the commit created for the accepted position i: rows take their
\* ids in the order of the list
RowIdOf(i) == commit.firstId + Cardinality({j \in AcceptedAtCommit : j < i})

RowsOfCommit == {c \in flash_cards : c.session_id = commit.session}

\* a save on card i stores the text of its editor
SaveReplacesText ==
    \A i \in Positions :
        ((ClickSave(i) \/ ClickAccept(i)) /\ CanSave(i))
            => /\ generatedFlashCards'[i].front = cardUi[i].editedFront
               /\ generatedFlashCards'[i].back = cardUi[i].editedBack

\* nothing but a save changes the text of a candidate
OnlySaveReplacesText ==
    \A i \in Positions :
        (SameCandidate(i)
           /\ <<generatedFlashCards'[i].front, generatedFlashCards'[i].back>>
                 # <<generatedFlashCards[i].front, generatedFlashCards[i].back>>)
            => \E j \in Positions : ClickSave(j) \/ ClickAccept(j)

\* the commit is started with the batch as it is when "Zapisz" is pressed
CommitTakesCurrentBatch ==
    (ModalHandleSave /\ pc' = "createSession") => commit'.batch = generatedFlashCards

\* the rows carry the text the candidates had when the commit was started
RowsCarryCommittedText ==
    CommittedFromUi =>
        \A i \in AcceptedAtCommit :
            \E c \in RowsOfCommit :
                /\ c.id = RowIdOf(i)
                /\ c.front = commit.batch[i].front
                /\ c.back = commit.batch[i].back

\* C7: when an accepted candidate's front/back are replaced before the commit,
\* the row the commit creates for it carries the front and back of the last
\* replacement.
C7_CommittedTextIsLastReplacement ==
    /\ [][SaveReplacesText /\ OnlySaveReplacesText /\ CommitTakesCurrentBatch]_vars
    /\ []RowsCarryCommittedText

\* a candidate was accepted, replaced again with another text, and committed
C7_Witness ==
    /\ CommittedFromUi
    /\ \E i \in AcceptedAtCommit :
          /\ commit.accepts[i] >= 2
          /\ commit.batch[i].front # GenCard(i).front
          /\ \E c \in RowsOfCommit :
                c.id = RowIdOf(i) /\ c.front = commit.batch[i].front

\* C8: a successful commit creates exactly one row for each candidate that is
\* accepted when the commit starts, in the order of the batch, and none for a
\* pending or rejected candidate: the rows bound to the new session are as
\* many as the accepted candidates.
C8_OneRowPerAccepted ==
    CommittedFromUi =>
        /\ Cardinality(RowsOfCommit) = Cardinality(AcceptedAtCommit)
        /\ IdsOf(RowsOfCommit) = {RowIdOf(i) : i \in AcceptedAtCommit}
        /\ \A i \in AcceptedAtCommit :
              [front |-> CardRow(RowIdOf(i)).front, back |-> CardRow(RowIdOf(i)).back]
                  = [front |-> commit.batch[i].front, back |-> commit.batch[i].back]
        /\ \A i, j \in AcceptedAtCommit : i < j => RowIdOf(i) < RowIdOf(j)

\* a batch with an accepted and a not accepted candidate has been committed
C8_Witness ==
    /\ CommittedFromUi
    /\ AcceptedAtCommit # {}
    /\ \E i \in 1..Len(commit.batch) : commit.batch[i].status # "accepted"
    /\ Cardinality(RowsOfCommit) = 1

(* ---------------------------------------------------------------------- *)
(* Properties of the generate endpoint (checked under SpecGenerate)        *)
(* ---------------------------------------------------------------------- *)
\* a request with a user and a text that is too short once trimmed or too long
TextOutOfRange(g) ==
    /\ g.pc # "idle"
    /\ g.caller # NoUser
    /\ g.body.isString
    /\ \/ TrimLength(g.body.text) < GenMinLen
       \/ RawLength(g.body.text) > GenMaxLen

\* C11: an authenticated generate request whose text has trimmed length below
\* 100 or raw length above 10000 is answered with the validation error, and at
\* no point of that request has a call to the provider been issued.
C11_InvalidTextNeverReachesProvider ==
    TextOutOfRange(gen) =>
        /\ gen.pc = "done"
        /\ gen.response.status = 400
        /\ gen.response.code = "VALIDATION_FAILED"
        /\ gen.calls = 0
        /\ gen.upstream = NoUpstream

\* a text that passes the raw minimum and fails only after trimming, and one
\* that fails only by its raw length, have both been refused
C11_Witness ==
    /\ TextOutOfRange(gen) /\ TextOutOfRange(genPrev)
    /\ RawLength(gen.body.text) >= GenMinLen
    /\ RawLength(gen.body.text) <= GenMaxLen
    /\ TrimLength(genPrev.body.text) = GenMaxLen
    /\ gen.response.status = 400 /\ genPrev.response.status = 400

\* an entry whose front and back are both strings, non-empty after trimming
WellFormed(e) ==
    /\ ~e.isNull
    /\ e.front.k = "string" /\ Trim(e.front.s) # <<>>
    /\ e.back.k = "string" /\ Trim(e.back.s) # <<>>

RECURSIVE CardsOf(_)
CardsOf(es) ==
    IF es = <<>> THEN <<>>
    ELSE <<[front |-> Trim(Head(es).front.s), back |-> Trim(Head(es).back.s)]>>
         \o CardsOf(Tail(es))

\* the well-formed entries in the provider's order, as cards
WellFormedCards(es) == CardsOf(SelectSeq(es, WellFormed))

ArrayServed(g) == g.pc = "done" /\ g.upstream.kind = "array"

\* C12: when the provider's flashcards value is an array, the cards returned
\* are exactly its well-formed entries, in the provider's order; every other
\* entry is dropped and none is coerced into a card.
C12_ParserKeepsExactlyWellFormed ==
    (ArrayServed(gen) /\ (gen.response.status = 200
                          \/ WellFormedCards(gen.upstream.entries) # <<>>))
    => /\ gen.response.status = 200
       /\ gen.response.flashcards = WellFormedCards(gen.upstream.entries)

\* C13: when the provider's array is empty or holds no well-formed entry, the
\* request fails, and no success response carries an empty list.
C13_NoWellFormedEntryFails ==
    /\ (ArrayServed(gen) /\ WellFormedCards(gen.upstream.entries) = <<>>)
       => gen.response.status >= 400
    /\ (gen.pc = "done" /\ gen.response.status = 200)
       => gen.response.flashcards # <<>>

\* the failure class of a served request, by the place where it failed
FailureClass(g) ==
    IF g.caller = NoUser THEN "auth-required"
    ELSE IF ~g.body.json \/ generateFlashCardsSchema(g.body) # {} THEN "validation"
    ELSE CASE g.upstream.kind = "timeout" -> "upstream-timeout"
           [] g.upstream.kind \in {"network", "status", "noChoices"}
                -> "upstream-service-error"
           [] g.upstream.kind \in {"bodyNotJson", "contentNotJson", "noArray"}
                -> "response-parse-error"
           [] OTHER ->
                IF \E i \in 1..Len(g.upstream.entries) : g.upstream.entries[i].isNull
                THEN "upstream-service-error"
                ELSE "empty-candidate-set"

Failed(g) == g.pc = "done" /\ g.response.status >= 400

\* C14: two failed requests of different failure classes are reported with
\* different codes.
C14_ClassesHaveDistinctCodes ==
    (Failed(gen) /\ Failed(genPrev) /\ FailureClass(gen) # FailureClass(genPrev))
    => gen.response.code # genPrev.response.code

\* C15: two failed requests by the same caller with the same body and of the
\* same failure class get identical responses, whatever status and payload
\* the provider sent.
C15_ResponseIndependentOfUpstream ==
    (/\ Failed(gen) /\ Failed(genPrev)
     /\ gen.caller = genPrev.caller /\ gen.body = genPrev.body
     /\ FailureClass(gen) = FailureClass(genPrev))
    => gen.response = genPrev.response

\* two requests that differ in the provider's status and payload only
C15_Witness ==
    /\ Failed(gen) /\ Failed(genPrev)
    /\ gen.caller = genPrev.caller /\ gen.body = genPrev.body
    /\ gen.upstream.kind = "status" /\ genPrev.upstream.kind = "status"
    /\ gen.upstream.status # genPrev.upstream.status
    /\ gen.upstream.payload # genPrev.upstream.payload
    /\ gen.response = genPrev.response

(* ---------------------------------------------------------------------- *)
(* Properties of the compensating cleanup (checked under SpecCommit)       *)
(* ---------------------------------------------------------------------- *)
\* the step that runs the cleanup ends the commit
CleanupEndsCommit ==
    pc = "cleanup" /\ pc' # pc
    => /\ pc' = "done"
       /\ commit'.result = "error"
       /\ commit'.deleteAttempts = 1

\* C16: when the insert of the cards has failed and the delete of the Session
\* fails too, the commit ends with an error for its caller after exactly one
\* delete attempt; the delete is not tried again.
C16_FailedCleanupStillSurfacesError ==
    /\ [](commit.deleteFailed =>
            /\ pc = "done"
            /\ commit.result = "error"
            /\ commit.deleteAttempts = 1)
    /\ [](commit.deleteAttempts <= 1)
    /\ [][CleanupEndsCommit]_vars

\* the insert failed, the delete failed, and the Session row is still there
C16_Witness ==
    /\ pc = "done"
    /\ commit.deleteFailed
    /\ commit.result = "error"
    /\ SessionExists(commit.session)

(* ---------------------------------------------------------------------- *)
(* Properties of the delete of a session by id (checked under Spec)        *)
(* ---------------------------------------------------------------------- *)
\* ids that no session of u carries: of no row at all, or of another owner's
UnknownSessionIds(u) ==
    {id \in SessionIds \cup {MissingSessionId} : ~SessionExists(id)}
    \cup ForeignSessionIds(u)

\* C18: delete session with an id that does not exist or that belongs to
\* another owner answers with a not-found error, never with success.
C18_DeleteUnknownSessionIsNotFound ==
    \A u \in Users : \A id \in UnknownSessionIds(u) :
        /\ NotFound(SessionsIdDELETE_resp(u, id))
        /\ NotFound(LegacySessionsIdDELETE_resp(id))

(* ---------------------------------------------------------------------- *)
(* Properties of the stored names and texts (checked under SpecInput)      *)
(* ---------------------------------------------------------------------- *)
\* empty after trimming, or longer than 255 characters
InvalidName(name) == Trim(name) = <<>> \/ Len(name) > NameMax

NoRowCreated == sessions' = sessions /\ flash_cards' = flash_cards

\* the createSession of the storage layer, called by itself or by a commit
StorageCreatesSessionWith(name) ==
    \/ createSession(name)
    \/ (SFS_createSession /\ commit.name = name)

\* C19: a commit or create-session request whose name is empty after trimming
\* or longer than 255 characters is refused with a validation error and
\* creates no Session and no FlashCard row.
C19_InvalidNameCreatesNothing ==
    [][\A name \in NameInputs :
         InvalidName(name) =>
            /\ (authUser # NoUser /\ SessionsPOST(authUser, name))
                  => /\ SessionsPOST_resp(authUser, name).status = 400
                     /\ NoRowCreated
            /\ StorageCreatesSessionWith(name) => NoRowCreated]_vars

\* non-empty after trimming and at most 1000 characters
TextInBounds(t) == Trim(t) # <<>> /\ Len(t) <= TextMax

\* C20: every stored FlashCard has a front and a back that are non-empty after
\* trimming and at most 1000 characters long.
C20_StoredTextsInBounds ==
    \A c \in flash_cards : TextInBounds(c.front) /\ TextInBounds(c.back)

(* ---------------------------------------------------------------------- *)
(* Properties of the empty commit from the dialog (checked under SpecUI)   *)
(* ---------------------------------------------------------------------- *)
\* the dialog's save with a name and with no accepted card in the batch
EmptyCommitFromDialog ==
    /\ ModalHandleSave
    /\ Truthy(Trim(modal.sessionName))
    /\ acceptedFlashCards(generatedFlashCards) = <<>>

\* C17: a commit with an empty accepted list completes successfully: it
\* raises no error to its caller.
C17_EmptyCommitSucceeds ==
    [][EmptyCommitFromDialog => (error' = error /\ modal'.error = "")]_vars

(* ---------------------------------------------------------------------- *)
(* Properties of the local ids of a batch (checked under SpecReview)       *)
(* ---------------------------------------------------------------------- *)
LocalIdsDistinct ==
    \A i \in Positions : \A j \in Positions :
        i # j => generatedFlashCards[i].id # generatedFlashCards[j].id

\* the user accepts, saves an edit of, or rejects the card at position i
ActsOn(i) == ClickAccept(i) \/ ClickSave(i) \/ ClickReject(i)

OthersUnchanged(i) ==
    \A j \in Positions \ {i} : generatedFlashCards'[j] = generatedFlashCards[j]

\* C29: the local ids of a staged batch are pairwise distinct, and an accept
\* or a reject changes the candidate the user acted on and leaves every other
\* candidate of the batch as it was.
C29_ActionTouchesOneCandidate ==
    /\ []LocalIdsDistinct
    /\ [][\A i \in 1..MaxBatch : ActsOn(i) => OthersUnchanged(i)]_vars

(* ---------------------------------------------------------------------- *)
(* Termination of the generate request (checked under SpecGenerateLive)    *)
(* ---------------------------------------------------------------------- *)
\* C21: every generate request ends with a response; when the deadline
\* passes, the call to the provider is aborted and the request ends with the
\* timeout failure; no call is pending once its request has ended.
C21_RequestEndsAndLeavesNoCall ==
    /\ (gen.pc = "fetch") ~> (gen.pc = "done" /\ gen.response.status # 0)
    /\ [](gen.pc = "done" => ~gen.pending)
    /\ [][GenerateDeadline =>
            /\ gen'.response.code = "AI_SERVICE_TIMEOUT"
            /\ ~gen'.pending]_vars

\* a request whose call was issued and cut off by the deadline
C21_Witness ==
    /\ gen.pc = "done"
    /\ gen.calls = 1
    /\ gen.upstream.kind = "timeout"
    /\ gen.response.code = "AI_SERVICE_TIMEOUT"
    /\ ~gen.pending

(* ---------------------------------------------------------------------- *)
(* Requests without an authenticated user (checked under Spec)             *)
(* ---------------------------------------------------------------------- *)
\* the response of every Session and FlashCard endpoint to a request that
\* carries no user
UnauthResponses ==
    {SessionsGET(NoUser), SessionsPOST_resp(NoUser, DefaultName),
     FlashcardsGET(NoUser, FALSE, NoId)}
    \cup {SessionsIdGET(NoUser, id) : id \in AnySessionId}
    \cup {SessionsIdPUT_resp(NoUser, id, OtherName) : id \in AnySessionId}
    \cup {SessionsIdDELETE_resp(NoUser, id) : id \in AnySessionId}
    \cup {LegacySessionsIdDELETE_resp(id) : id \in AnySessionId}
    \cup {FlashcardsPOST_resp(NoUser, sid, TxtQ, TxtA) : sid \in AnySessionId}
    \cup {FlashcardsIdGET(NoUser, id) : id \in AnyCardId}
    \cup {FlashcardsIdPUT_resp(NoUser, id, TxtE, TxtA) : id \in AnyCardId}
    \cup {FlashcardsIdDELETE_resp(NoUser, id) : id \in AnyCardId}

\* 401 AUTH_REQUIRED carrying no row
Refused(r) ==
    r.status = 401 /\ r.code = "AUTH_REQUIRED" /\ r.owners = {} /\ r.ids = {}

\* a generate request without a user has ended with 401 and without a call
GenerateRefused ==
    (gen.pc # "idle" /\ gen.caller = NoUser) =>
        /\ gen.pc = "done"
        /\ gen.calls = 0
        /\ gen.response.status = 401
        /\ gen.response.code = "AUTH_REQUIRED"

\* C22: every Session or FlashCard endpoint, and the generate endpoint,
\* answers a request without an authenticated user with 401 AUTH_REQUIRED,
\* reads and writes no Session or FlashCard and makes no upstream call.
C22_UnauthenticatedRequestIsRefused ==
    /\ [](\A r \in UnauthResponses : Refused(r))
    /\ []GenerateRefused
    /\ [][(\/ SessionsPOST(NoUser, DefaultName)
           \/ \E id \in AnySessionId : SessionsIdPUT(NoUser, id, OtherName)
           \/ \E id \in AnySessionId : SessionsIdDELETE(NoUser, id)
           \/ \E id \in AnySessionId : LegacySessionsIdDELETE(id)
           \/ \E sid \in AnySessionId : FlashcardsPOST(NoUser, sid, TxtQ, TxtA)
           \/ \E id \in AnyCardId : FlashcardsIdPUT(NoUser, id, TxtE, TxtA)
           \/ \E id \in AnyCardId : FlashcardsIdDELETE(NoUser, id))
          => UNCHANGED dbVars]_vars

(* ---------------------------------------------------------------------- *)
(* The storage layer without a user (checked under SpecInput)              *)
(* ---------------------------------------------------------------------- *)
\* a step of saveFlashCard, of createSession or of a commit
StorageWrites ==
    \/ \E sid \in SessionIds \cup {NoId}, t \in TextInputs : saveFlashCard(t, TxtA, sid)
    \/ \E name \in NameInputs : createSession(name)
    \/ CommitSteps

\* the commit has thrown, or is on its way out through the cleanup
CommitFailing ==
    pc' = "cleanup" \/ (pc' = "done" /\ commit'.result = "error")

\* C23: with no user authenticated, saveFlashCard, createSession and
\* saveFlashCardsToSession fail with an error and insert no row into
\* flash_cards or sessions.
C23_NoUserNoInsert ==
    /\ [](authUser = NoUser =>
            /\ createSession_throws
            /\ \A sid \in SessionIds \cup {NoId} : saveFlashCard_throws(sid))
    /\ [][(authUser = NoUser /\ StorageWrites) => NoRowCreated]_vars
    /\ [][(authUser = NoUser /\ CommitSteps) => CommitFailing]_vars

\* a commit called with nobody logged in has thrown at createSession and the
\* tables are as empty as before
C23_Witness ==
    /\ authUser = NoUser
    /\ pc = "done"
    /\ commit.result = "error"
    /\ commit.session = NoId
    /\ sessions = {} /\ flash_cards = {}
    /\ nextSessionId = 1 /\ nextCardId = 1

(* ---------------------------------------------------------------------- *)
(* The compensating delete (checked under SpecCommit)                      *)
(* ---------------------------------------------------------------------- *)
\* the insert of the cards failed and deleteSession returned without error
CompensatedCommit ==
    /\ pc = "done"
    /\ commit.result = "error"
    /\ commit.deleteAttempts = 1
    /\ ~commit.deleteFailed

\* no row written by the commit is in the tables
CommitLeftNothing ==
    /\ commit.session \notin IdsOf(sessions)
    /\ \A c \in flash_cards : c.session_id # commit.session
    /\ commit.firstId = NoId

\* C24: when the bulk insert of a commit fails and the compensating delete of
\* the Session succeeds, the store holds the Sessions and FlashCards it held
\* before the commit: no orphan Session, no partial set of cards.
C24_CompensationRestoresStore == CompensatedCommit => CommitLeftNothing

(* ---------------------------------------------------------------------- *)
(* A batch delivered during a commit (checked under SpecRestage)           *)
(* ---------------------------------------------------------------------- *)
\* the staged batch is not the one the running commit was taken from
NewBatchStaged ==
    /\ generatedFlashCards # <<>>
    /\ generatedFlashCards # commit.batch

\* C25: a successful commit discards only the candidates of the batch it
\* committed: a new batch delivered by a generation request while the commit
\* was in flight is still staged after the commit completes.
C25_CommitKeepsNewBatch ==
    [][(SessionSaveReturn /\ commit.result = "ok" /\ NewBatchStaged)
          => generatedFlashCards' = generatedFlashCards]_vars

(* ---------------------------------------------------------------------- *)
(* One commit per batch, and the failed commit (checked under SpecUI)      *)
(* ---------------------------------------------------------------------- *)
\* the sessions that hold a card
SessionsWithCards == {c.session_id : c \in flash_cards} \ {NoId}

\* a commit started from the dialog has not yet returned to it
CommitInFlight == pc # "idle" /\ commit.via = "ui"

\* C26: no staged batch is committed twice: while a commit is in flight the
\* save dialog is open and disabled, so it can be neither resubmitted nor
\* closed; after a successful commit the staged batch is empty; and the cards
\* of the one batch the page stages are never held by two Sessions.
C26_BatchCommittedOnce ==
    /\ [](CommitInFlight => (isSessionModalOpen /\ modal.isSaving))
    /\ [][(ModalHandleSave \/ ModalHandleClose \/ handleSaveToSession)
            => ~CommitInFlight]_vars
    /\ [][(SessionSaveReturn /\ commit.result = "ok")
            => (generatedFlashCards' = <<>> /\ ~isSessionModalOpen')]_vars
    /\ [](Cardinality(SessionsWithCards) <= 1)

\* the batch has been committed, the page is empty again and a second
\* Session could still be created
C26_Witness ==
    /\ staged = 1
    /\ pc = "idle"
    /\ generatedFlashCards = <<>>
    /\ ~isSessionModalOpen
    /\ Cardinality(SessionsWithCards) = 1
    /\ nextSessionId <= MaxSessions
    /\ nextCardId <= MaxCards

\* the commit has ended in an error and returns to the dialog
CommitFailsInDialog == SessionSaveReturn /\ commit.result # "ok"

C28_FailedGenerationEmptiesBatch ==
    [][GenerateFail =>
          /\ ~isLoading'
          /\ error' # ""
          /\ generatedFlashCards' = <<>>
          /\ cardUi' = <<>>]_vars

\* a batch was staged, and the generation requested after it has failed
C28_Witness ==
    /\ staged = 1
    /\ ~isLoading
    /\ error = "generate failed"
    /\ generatedFlashCards = <<>>

(* ---------------------------------------------------------------------- *)
(* Reading one's own cards over the API (checked under Spec)               *)
(* ---------------------------------------------------------------------- *)
CardsOwnedBy(u) == {c \in flash_cards : c.user_id = u}

\* C30: the list and the get-by-id endpoints return to a caller every
\* FlashCard the caller owns and only those, standalone FlashCards (sessionId
\* null) included.
C30_OwnerReadsAllOwnCards ==
    \A u \in Users :
        /\ FlashcardsGET(u, FALSE, NoId).ids = IdsOf(CardsOwnedBy(u))
        /\ \A id \in AnyCardId :
              IF id \in IdsOf(CardsOwnedBy(u))
              THEN FlashcardsIdGET(u, id).status = 200
              ELSE FlashcardsIdGET(u, id).status = 404

====
